---------------------------- MODULE Spec2Model ----------------------------
(***************************************************************************)
(* Behaviour layer of the Vortixia site: the throttle utility of           *)
(* assets/js/performance-optimizer.js and the reveal-animation engine      *)
(* (VortixiaApp.animations) of assets/js/script.js.                        *)
(*                                                                         *)
(* JavaScript runs each handler to completion on one thread, so every      *)
(* handler is one action.  Time is a discrete clock; a setTimeout callback *)
(* runs when its delay has elapsed (the clock does not pass a due timer),  *)
(* and a call made at the very instant a timer is due may run before or    *)
(* after the timer's callback.                                             *)
(***************************************************************************)
EXTENDS Integers, Sequences, FiniteSets, TLC

VARIABLES
    \* ---- throttle (performance-optimizer.js) ----
    now,            \* the clock, in time units
    limit,          \* the `limit` argument of throttle(func, limit)
    inThrottle,     \* the closure variable of the wrapper
    timers,         \* deadlines of the pending setTimeout callbacks
    invoked,        \* what func recorded: one entry per invocation of func
    total,          \* context.total of each context object func was applied to
    calls,          \* history of the wrapper calls (observation only)
    \* ---- reveal engine (script.js, VortixiaApp.animations) ----
    pc,                 \* position of animations.init: "load", "prepare", "ready"
    matches,            \* prefersReducedMotion.matches, owned by the platform
    canListen,          \* typeof prefersReducedMotion.addEventListener === 'function'
    supportsObserver,   \* 'IntersectionObserver' in window
    listening,          \* the 'change' listener of init is registered
    bodyReducedMotion,  \* document.body carries the class reduced-motion
    animatedElements,   \* the Set animatedElements, in insertion order
    pendingElements,    \* the array pendingElements
    observer,           \* this.observer: NoObserver (null) or an observer's index
    observing,          \* observation targets of every IntersectionObserver created
    classList,          \* element.classList of every element
    animate,            \* element.dataset.animate ("" when absent)
    animationDelay,     \* the --animation-delay style property (0 when never set)
    firstType,          \* type argument of each element's first registration (observation only)
    reshown,            \* elements showElement ran on while already visible (observation only)
    changed,            \* the preference changed since init completed (observation only)
    prepareCalls,       \* number of prepareElement calls made by init (observation only)
    lastEvent,          \* the handler that ran last, with its arguments (observation only)
    \* ---- navigation overlay (script.js navigation, performance-optimizer.js) ----
    navPhase,           \* "script": script.js handlers installed; "both": the optimizer's too
    scriptFirst,        \* script.js handlers run before the optimizer's for the same event
    triggerIsMenuLink,  \* the sub-menu triggers also carry the class mobile-menu-link
    hamburgerActive,    \* .hamburger carries the class active
    overlayActive,      \* .mobile-nav-overlay carries the class active
    ariaExpanded,       \* aria-expanded of the hamburger ("" when absent)
    ariaHidden,         \* aria-hidden of the overlay ("" when absent)
    bodyOverflow,       \* document.body.style.overflow
    activeSubmenus,     \* the .mobile-submenu elements that carry the class active
    innerWidth,         \* window.innerWidth
    navEvent,           \* the event dispatched last (observation only)
    navBefore,          \* the DOM state before that event (observation only)
    \* ---- session visit (performance-optimizer.js isFirstSessionLoad) ----
    protocol,           \* window.location.protocol
    visited,            \* sessionStorage holds the key vortixia-visited
    windowName,         \* window.name
    session,            \* the number of the browsing session
    returns,            \* the calls of this session, in order: what each returned and
                        \* whether it took the window.name path (observation only)
    storageThrew,       \* a storage access of this session threw (observation only)
    \* ---- theme (script.js theme) ----
    htmlClasses,        \* the theme classes of document.documentElement
    bodyClasses,        \* the theme classes of document.body
    storedTheme,        \* localStorage item theme ("" when absent)
    ariaChecked,        \* aria-checked of each theme toggle
    ariaLabel,          \* aria-label of each theme toggle
    themeEvent,         \* "none", or the outcome of the last click (observation only)
    clicks,             \* the number of clicks so far (observation only)
    clickedToggle,      \* the toggle clicked last, "" before any click (observation only)
    writeThrew,         \* a write of the theme item has thrown (observation only)
    \* ---- hero carousel (script.js animations.setupCarousel) ----
    slides,             \* the number of .hero-slide elements
    dots,               \* the number of .dot elements
    currentSlide,       \* currentSlide
    activeSlides,       \* the indices of the slides that carry the class active
    activeDots,         \* the indices of the dots that carry the class active
    slideInterval,      \* the handle held in slideInterval
    intervals,          \* the running interval timers: handle -> seconds since it last fired
    nextHandle,         \* the handle the next setInterval returns
    carouselEvent,      \* the handler that ran last (observation only)
    \* ---- scroll-aware navigation bar (script.js navigation.setupNavScroll) ----
    navHeight,          \* nav.offsetHeight, read once at set-up
    pageYOffset,        \* window.pageYOffset
    lastScrollTop,      \* navigation.lastScrollTop
    isNavHidden,        \* navigation.isNavHidden
    ticking,            \* ticking
    scheduledFrames,    \* the animation-frame callbacks requested and not yet run
    navTransform        \* nav.style.transform: "" (none), "hide" or "show"

throttleVars == <<now, limit, inThrottle, timers, invoked, total, calls>>

revealVars == <<pc, matches, canListen, supportsObserver, listening, bodyReducedMotion,
                animatedElements, pendingElements, observer, observing, classList,
                animate, animationDelay, firstType, reshown, changed, prepareCalls,
                lastEvent>>

navVars == <<navPhase, scriptFirst, triggerIsMenuLink, hamburgerActive, overlayActive,
             ariaExpanded, ariaHidden, bodyOverflow, activeSubmenus, innerWidth, navEvent,
             navBefore>>

sessionVars == <<protocol, visited, windowName, session, returns, storageThrew>>

themeVars == <<htmlClasses, bodyClasses, storedTheme, ariaChecked, ariaLabel, themeEvent,
               clicks, clickedToggle, writeThrew>>

carouselVars == <<slides, dots, currentSlide, activeSlides, activeDots, slideInterval,
                  intervals, nextHandle, carouselEvent>>

scrollVars == <<navHeight, pageYOffset, lastScrollTop, isNavHidden, ticking, scheduledFrames,
                navTransform>>

vars == <<throttleVars, revealVars, navVars, sessionVars, themeVars, carouselVars, scrollVars>>

\* What the actions of one part leave alone.
notThrottleVars ==
    <<revealVars, navVars, sessionVars, themeVars, carouselVars, scrollVars>>

notRevealVars ==
    <<throttleVars, navVars, sessionVars, themeVars, carouselVars, scrollVars>>

notNavVars ==
    <<throttleVars, revealVars, sessionVars, themeVars, carouselVars, scrollVars>>

notSessionVars ==
    <<throttleVars, revealVars, navVars, themeVars, carouselVars, scrollVars>>

notCarouselVars == <<throttleVars, revealVars, navVars, sessionVars, themeVars, scrollVars>>

notScrollVars == <<throttleVars, revealVars, navVars, sessionVars, themeVars, carouselVars>>

notThemeVars ==
    <<throttleVars, revealVars, navVars, sessionVars, carouselVars, scrollVars>>

\* ------------------------------------------------------------------ bounds
MaxTime == 4
MaxCalls == 4
MaxPrepareCalls == 3
MaxObservers == 2

\* ------------------------------------------------------------ input domains
Contexts == {"ctxA", "ctxB"}
Amounts == {3, 5}
Limits == {2, 3}
Elements == {"h1", "p"}
Categories == {"heading", "text"}
MarkupCategories == {"", "card"}
Delays == {0, 8, 12}
Submenus == {"services", "careers"}
Widths == {768, 992, 993, 1280}
Keys == {"Escape", "Tab"}
Protocols == {"https:", "file:"}
InitialNames == {"", "popup"}
Toggles == {"theme-toggle", "mobile-theme-toggle"}
InitialThemes == {"", "dark", "light"}

\* ------------------------------------------------------------------ throttle

\* The callback handed to throttle: it records its argument and the time (test
\* case 1, calls.push(value)) and adds the argument to this.total (test case 2).
Func(context, args) ==
    /\ invoked' = Append(invoked, [t |-> now, ctx |-> context, amt |-> args])
    /\ total' = [total EXCEPT ![context] = @ + args]

\* One entry of the call history: when the wrapper was called, with what, and the
\* length of func's record before and after the call returned.
CallRecord(context, args, after) ==
    [t |-> now, ctx |-> context, amt |-> args, before |-> Len(invoked), after |-> after]

\* A wrapper that never latches inThrottle: every call goes through.
ThrottledCallNoLatch(context, args) ==
    /\ Len(calls) < MaxCalls
    /\ Func(context, args)
    /\ calls' = Append(calls, CallRecord(context, args, Len(invoked) + 1))
    /\ UNCHANGED <<now, limit, inThrottle, timers>>
    /\ UNCHANGED notThrottleVars

\* A wrapper that calls func(args) without the caller's context: func runs on the
\* same default object whatever the wrapper was called on.
ThrottledCallLosesContext(context, args) ==
    /\ Len(calls) < MaxCalls
    /\ IF ~inThrottle
         THEN /\ Func(CHOOSE c \in Contexts : TRUE, args)
              /\ inThrottle' = TRUE
              /\ timers' = timers \cup {now + limit}
              /\ calls' = Append(calls, CallRecord(context, args, Len(invoked) + 1))
         ELSE /\ calls' = Append(calls, CallRecord(context, args, Len(invoked)))
              /\ UNCHANGED <<invoked, total, inThrottle, timers>>
    /\ UNCHANGED <<now, limit>>
    /\ UNCHANGED notThrottleVars

\* The wrapper returned by throttle(func, limit), called as wrapper.call(context, args).
ThrottledCall(context, args) ==
    /\ Len(calls) < MaxCalls
    /\ IF ~inThrottle
         THEN /\ Func(context, args)
              /\ inThrottle' = TRUE
              /\ timers' = timers \cup {now + limit}
              /\ calls' = Append(calls, CallRecord(context, args, Len(invoked) + 1))
         ELSE /\ calls' = Append(calls, CallRecord(context, args, Len(invoked)))
              /\ UNCHANGED <<invoked, total, inThrottle, timers>>
    /\ UNCHANGED <<now, limit>>
    /\ UNCHANGED notThrottleVars

\* A trailing-edge timer: when calls were dropped during the window, the callback
\* also invokes func for the last of them.
TimerFireTrailing(d) ==
    /\ d \in timers
    /\ d <= now
    /\ inThrottle' = FALSE
    /\ timers' = timers \ {d}
    /\ IF calls # <<>> /\ calls[Len(calls)].after = calls[Len(calls)].before
         THEN Func(calls[Len(calls)].ctx, calls[Len(calls)].amt)
         ELSE UNCHANGED <<invoked, total>>
    /\ UNCHANGED <<now, limit, calls>>
    /\ UNCHANGED notThrottleVars

\* The callback of setTimeout(() => (inThrottle = false), limit), run when due.
TimerFire(d) ==
    /\ d \in timers
    /\ d <= now
    /\ inThrottle' = FALSE
    /\ timers' = timers \ {d}
    /\ UNCHANGED <<now, limit, invoked, total, calls>>
    /\ UNCHANGED notThrottleVars

\* Time passes, but not beyond a timer that is due.
Tick ==
    /\ now < MaxTime
    /\ \A d \in timers : d > now
    /\ now' = now + 1
    /\ UNCHANGED <<limit, inThrottle, timers, invoked, total, calls>>
    /\ UNCHANGED notThrottleVars

InitThrottle ==
    /\ now = 0
    /\ limit \in Limits
    /\ inThrottle = FALSE
    /\ timers = {}
    /\ invoked = <<>>
    /\ total = [c \in Contexts |-> 0]
    /\ calls = <<>>

NextThrottle ==
    \/ \E c \in Contexts, a \in Amounts : ThrottledCall(c, a)
    \/ \E d \in timers : TimerFire(d)
    \/ Tick

\* ------------------------------------------------------------ throttle: claims

\* The i-th wrapper call invoked func before it returned.
WasInvoked(i) == calls[i].after = calls[i].before + 1

\* Sum of the amounts of the invoked calls among the first n that were made on context c.
RECURSIVE InvokedSum(_, _)
InvokedSum(c, n) ==
    IF n = 0
      THEN 0
      ELSE InvokedSum(c, n - 1)
           + (IF WasInvoked(n) /\ calls[n].ctx = c THEN calls[n].amt ELSE 0)

\* C1: the first call invokes func immediately; a call arriving less than `limit`
\* after the most recent invocation is dropped, then and later (func's record grows
\* only inside a call); the first call arriving after `limit` has elapsed since the
\* most recent invocation invokes func immediately; so two invocations are never less
\* than `limit` apart.
C1_ThrottleWindow ==
    /\ \A i \in 1..Len(calls) :
         /\ calls[i].after \in {calls[i].before, calls[i].before + 1}
         /\ calls[i].before = (IF i = 1 THEN 0 ELSE calls[i - 1].after)
         /\ WasInvoked(i) => invoked[calls[i].after].t = calls[i].t
         /\ calls[i].before = 0 => WasInvoked(i)
         /\ calls[i].before > 0 =>
              LET last == invoked[calls[i].before].t
              IN  /\ calls[i].t - last < limit => ~WasInvoked(i)
                  /\ calls[i].t - last > limit => WasInvoked(i)
    /\ Len(invoked) = (IF calls = <<>> THEN 0 ELSE calls[Len(calls)].after)
    /\ \A k \in 2..Len(invoked) : invoked[k].t - invoked[k - 1].t >= limit

\* The test's run: four calls, the second and third inside the window of the first
\* (the third at a later time), the fourth after the window; func ran for 1 and 4.
C1_Witness ==
    /\ Len(calls) = 4
    /\ WasInvoked(1) /\ ~WasInvoked(2) /\ ~WasInvoked(3) /\ WasInvoked(4)
    /\ calls[2].t = calls[1].t
    /\ calls[3].t > calls[1].t
    /\ calls[4].t - calls[1].t > limit
    /\ Len(invoked) = 2

\* C2, as claimed: the final call of a burst is eventually processed.  Once no timer
\* is pending nothing is left that could still invoke func, so by then func has been
\* invoked for the last call or after it.
C2_TrailingEdge ==
    (timers = {} /\ calls # <<>>) =>
        \/ WasInvoked(Len(calls))
        \/ Len(invoked) > calls[Len(calls)].after

\* C2, amended: the throttle is leading-edge only.  func's record grows only inside
\* a wrapper call, by that call's own entry; the timer callback reopens the window
\* and invokes nothing, so a call dropped inside the window stays unprocessed.
C2_LeadingEdgeOnly ==
    [][/\ invoked' # invoked =>
            /\ Len(calls') = Len(calls) + 1
            /\ invoked' = Append(invoked,
                                 [t   |-> calls'[Len(calls')].t,
                                  ctx |-> calls'[Len(calls')].ctx,
                                  amt |-> calls'[Len(calls')].amt])
       /\ timers' # timers /\ calls' = calls => invoked' = invoked
       /\ (calls' = calls /\ calls # <<>> /\ ~WasInvoked(Len(calls))) =>
            Len(invoked') = calls[Len(calls)].after]_vars

\* The window has closed after a burst whose final call was dropped.
C2_Witness ==
    /\ timers = {}
    /\ ~inThrottle
    /\ Len(calls) >= 2
    /\ WasInvoked(1)
    /\ ~WasInvoked(Len(calls))
    /\ now > calls[Len(calls)].t

\* C3: every call that is not dropped invokes func with the context and the
\* arguments the wrapper was called with, so each context's total is the sum of the
\* amounts of the non-dropped calls made on it.
C3_ContextAndArguments ==
    /\ \A i \in 1..Len(calls) :
         WasInvoked(i) =>
             /\ invoked[calls[i].after].ctx = calls[i].ctx
             /\ invoked[calls[i].after].amt = calls[i].amt
    /\ \A c \in Contexts : total[c] = InvokedSum(c, Len(calls))

\* Two non-dropped calls on one context, adding 5 and then 3, with a call on the
\* other context in between: the total is 8.
C3_Witness ==
    \E c \in Contexts, i, j \in 1..Len(calls) :
        /\ i < j
        /\ WasInvoked(i) /\ WasInvoked(j)
        /\ calls[i].ctx = c /\ calls[j].ctx = c
        /\ calls[i].amt = 5 /\ calls[j].amt = 3
        /\ \E k \in 1..Len(calls) : calls[k].ctx # c
        /\ total[c] = 8

\* ------------------------------------------------------------ reveal engine

NoObserver == 0
IsVisible == "is-visible"

SetOf(seq) == {seq[i] : i \in 1..Len(seq)}

\* DOMTokenList, as the handlers use it: contains, add (no duplicate), remove.
ClassListContains(list, token) == token \in SetOf(list)

ClassListAdd(list, token) ==
    IF ClassListContains(list, token) THEN list ELSE Append(list, token)

ClassListRemove(list, token) == SelectSeq(list, LAMBDA c : c # token)

\* The animations object together with the DOM state its methods touch.
Animations ==
    [animatedElements |-> animatedElements,
     pendingElements  |-> pendingElements,
     observer         |-> observer,
     observing        |-> observing,
     classList        |-> classList,
     animate          |-> animate,
     animationDelay   |-> animationDelay,
     firstType        |-> firstType,
     reshown          |-> reshown]

\* IntersectionObserver.observe / unobserve / disconnect of observer o.
Observe(s, o, element) == [s EXCEPT !.observing[o] = @ \cup {element}]

Unobserve(s, o, element) == [s EXCEPT !.observing[o] = @ \ {element}]

Disconnect(s, o) == [s EXCEPT !.observing[o] = {}]

\* element.style.setProperty('--animation-delay', `${delay}s`)
SetDelay(s, element, delay) == [s EXCEPT !.animationDelay[element] = delay]

\* A registration without the animatedElements.has guard: a registered element is
\* registered again.
prepareElementNoGuard(s, element, type, delay) ==
    LET animationType == IF type = "" THEN "text" ELSE type
        s1 == IF s.animate[element] = ""
                THEN [s EXCEPT !.animate[element] = animationType]
                ELSE s
        s2 == IF delay # 0 THEN SetDelay(s1, element, delay) ELSE s1
        s3 == [s2 EXCEPT !.animatedElements =
                             IF element \in SetOf(@) THEN @ ELSE Append(@, element),
                         !.firstType[element] = IF @ = "" THEN type ELSE @]
    IN  IF s3.observer # NoObserver
          THEN Observe(s3, s3.observer, element)
          ELSE [s3 EXCEPT !.pendingElements = Append(@, element)]

prepareElement(s, element, type, delay) ==
    IF element \in SetOf(s.animatedElements)
      THEN IF delay # 0 THEN SetDelay(s, element, delay) ELSE s
      ELSE LET animationType == IF type = "" THEN "text" ELSE type
               s1 == IF s.animate[element] = ""
                       THEN [s EXCEPT !.animate[element] = animationType]
                       ELSE s
               s2 == IF delay # 0 THEN SetDelay(s1, element, delay) ELSE s1
               s3 == [s2 EXCEPT !.animatedElements = Append(@, element),
                                !.firstType[element] = type]
           IN  IF s3.observer # NoObserver
                 THEN Observe(s3, s3.observer, element)
                 ELSE [s3 EXCEPT !.pendingElements = Append(@, element)]

\* A reveal that toggles the class instead of adding it.
showElementToggle(s, element) ==
    [s EXCEPT !.classList[element] =
                  IF ClassListContains(@, IsVisible)
                    THEN ClassListRemove(@, IsVisible)
                    ELSE Append(@, IsVisible),
              !.reshown = IF ClassListContains(s.classList[element], IsVisible)
                            THEN @ \cup {element} ELSE @]

\* A reveal that appends the class name without looking (className += ' is-visible').
showElementAppend(s, element) ==
    [s EXCEPT !.classList[element] = Append(@, IsVisible),
              !.reshown = IF ClassListContains(s.classList[element], IsVisible)
                            THEN @ \cup {element} ELSE @]

showElement(s, element) ==
    [s EXCEPT !.classList[element] = ClassListAdd(@, IsVisible),
              !.reshown = IF ClassListContains(s.classList[element], IsVisible)
                            THEN @ \cup {element} ELSE @]

\* animatedElements.forEach(showElement), from the i-th member on.
RECURSIVE ShowAllFrom(_, _)
ShowAllFrom(s, i) ==
    IF i > Len(s.animatedElements)
      THEN s
      ELSE ShowAllFrom(showElement(s, s.animatedElements[i]), i + 1)

showAll(s) == ShowAllFrom(s, 1)

\* items.forEach(element => observer.observe(element)), from the i-th item on.
RECURSIVE ObserveAllFrom(_, _, _)
ObserveAllFrom(s, items, i) ==
    IF i > Len(items)
      THEN s
      ELSE ObserveAllFrom(Observe(s, s.observer, items[i]), items, i + 1)

\* A registration of the queue that empties it without observing its items.
registerPendingElementsDropsQueue(s) ==
    IF s.observer = NoObserver
      THEN s
      ELSE [s EXCEPT !.pendingElements = <<>>]

registerPendingElements(s) ==
    IF s.observer = NoObserver
      THEN s
      ELSE ObserveAllFrom([s EXCEPT !.pendingElements = <<>>], s.pendingElements, 1)

\* this.observer = new IntersectionObserver(callback, options)
NewObserver(s) ==
    [s EXCEPT !.observing = Append(@, {}), !.observer = Len(s.observing) + 1]

\* A setup that tests only for the IntersectionObserver capability.
setupIgnoresPreference(s, m) ==
    IF ~supportsObserver
      THEN [showAll(s) EXCEPT !.pendingElements = <<>>]
      ELSE registerPendingElements(NewObserver(s))

\* m is prefersReducedMotion.matches as read by the method.
setupIntersectionObserver(s, m) ==
    IF m \/ ~supportsObserver
      THEN [showAll(s) EXCEPT !.pendingElements = <<>>]
      ELSE registerPendingElements(NewObserver(s))

\* animatedElements.forEach(element => element.classList.remove('is-visible'))
HideAll(s) ==
    [s EXCEPT !.classList =
        [e \in Elements |-> IF e \in SetOf(s.animatedElements)
                              THEN ClassListRemove(s.classList[e], IsVisible)
                              ELSE s.classList[e]]]

\* A reset that drops the old observer without disconnecting it.
resetObserverNoDisconnect(s, m) ==
    LET s1 == [s EXCEPT !.observer = NoObserver]
        s2 == HideAll(s1)
        s3 == [s2 EXCEPT !.pendingElements = s2.animatedElements]
    IN  setupIntersectionObserver(s3, m)

resetObserver(s, m) ==
    LET s1 == IF s.observer # NoObserver
                THEN [Disconnect(s, s.observer) EXCEPT !.observer = NoObserver]
                ELSE s
        s2 == HideAll(s1)
        s3 == [s2 EXCEPT !.pendingElements = s2.animatedElements]
    IN  setupIntersectionObserver(s3, m)

\* The observer callback over the intersecting entries: showElement(entry.target);
\* this.observer.unobserve(entry.target).  Entries that do not intersect are skipped.
RECURSIVE observerCallback(_, _)
observerCallback(s, intersecting) ==
    IF intersecting = {}
      THEN s
      ELSE LET target == CHOOSE e \in intersecting : TRUE
           IN  observerCallback(Unobserve(showElement(s, target), s.observer, target),
                                intersecting \ {target})

\* The variables take the values of the record s.
Becomes(s) ==
    /\ animatedElements' = s.animatedElements
    /\ pendingElements' = s.pendingElements
    /\ observer' = s.observer
    /\ observing' = s.observing
    /\ classList' = s.classList
    /\ animate' = s.animate
    /\ animationDelay' = s.animationDelay
    /\ firstType' = s.firstType
    /\ reshown' = s.reshown
    /\ UNCHANGED notRevealVars

\* An init that registers the change listener without testing for addEventListener.
InitStartAlwaysListens ==
    /\ pc = "load"
    /\ pc' = "prepare"
    /\ bodyReducedMotion' = matches
    /\ listening' = TRUE
    /\ Becomes([Animations EXCEPT !.pendingElements = <<>>])
    /\ lastEvent' = "init"
    /\ UNCHANGED <<matches, canListen, supportsObserver, changed, prepareCalls>>

\* animations.init up to the first line of prepareElements: reads the preference,
\* toggles the body class, registers the change listener, empties the queue.
InitStart ==
    /\ pc = "load"
    /\ pc' = "prepare"
    /\ bodyReducedMotion' = matches
    /\ listening' = canListen
    /\ Becomes([Animations EXCEPT !.pendingElements = <<>>])
    /\ lastEvent' = "init"
    /\ UNCHANGED <<matches, canListen, supportsObserver, changed, prepareCalls>>

\* One prepareElement call made by the prepare* methods of prepareElements.
PrepareElement(element, type, delay) ==
    /\ pc = "prepare"
    /\ prepareCalls < MaxPrepareCalls
    /\ prepareCalls' = prepareCalls + 1
    /\ Becomes(prepareElement(Animations, element, type, delay))
    /\ lastEvent' = "prepare"
    /\ UNCHANGED <<pc, matches, canListen, supportsObserver, listening,
                   bodyReducedMotion, changed>>

\* The rest of animations.init: setupIntersectionObserver.
InitFinish ==
    /\ pc = "prepare"
    /\ pc' = "ready"
    /\ Becomes(setupIntersectionObserver(Animations, matches))
    /\ lastEvent' = "setup"
    /\ UNCHANGED <<matches, canListen, supportsObserver, listening,
                   bodyReducedMotion, changed, prepareCalls>>

\* The platform reports entries of observer o; `intersecting` are the targets of the
\* entries with isIntersecting.
Intersect(o, intersecting) ==
    /\ pc = "ready"
    /\ o \in 1..Len(observing)
    /\ observing[o] # {}
    /\ intersecting \subseteq observing[o]
    /\ Becomes(observerCallback(Animations, intersecting))
    /\ lastEvent' = "intersect"
    /\ UNCHANGED <<pc, matches, canListen, supportsObserver, listening,
                   bodyReducedMotion, changed, prepareCalls>>

\* The 'change' listener of init, called with event.matches = m.
changeListener(s, m) == IF m THEN showAll(s) ELSE resetObserver(s, m)

\* The user turns reduced motion ON.
ChangeToReduced ==
    /\ pc = "ready"
    /\ ~matches
    /\ matches' = TRUE
    /\ changed' = TRUE
    /\ IF listening
         THEN /\ bodyReducedMotion' = TRUE
              /\ Becomes(changeListener(Animations, TRUE))
         ELSE /\ bodyReducedMotion' = bodyReducedMotion
              /\ Becomes(Animations)
    /\ lastEvent' = "changeOn"
    /\ UNCHANGED <<pc, canListen, supportsObserver, listening, prepareCalls>>

\* The user turns reduced motion OFF.
ChangeToMotion ==
    /\ pc = "ready"
    /\ matches
    /\ listening /\ supportsObserver => Len(observing) < MaxObservers
    /\ matches' = FALSE
    /\ changed' = TRUE
    /\ IF listening
         THEN /\ bodyReducedMotion' = FALSE
              /\ Becomes(changeListener(Animations, FALSE))
         ELSE /\ bodyReducedMotion' = bodyReducedMotion
              /\ Becomes(Animations)
    /\ lastEvent' = "changeOff"
    /\ UNCHANGED <<pc, canListen, supportsObserver, listening, prepareCalls>>

InitReveal ==
    /\ pc = "load"
    /\ matches \in BOOLEAN
    /\ canListen \in BOOLEAN
    /\ supportsObserver \in BOOLEAN
    /\ listening = FALSE
    /\ bodyReducedMotion = FALSE
    /\ animatedElements = <<>>
    /\ pendingElements = <<>>
    /\ observer = NoObserver
    /\ observing = <<>>
    /\ classList = [e \in Elements |-> <<>>]
    /\ animate \in [Elements -> MarkupCategories]
    /\ animationDelay = [e \in Elements |-> 0]
    /\ firstType = [e \in Elements |-> ""]
    /\ reshown = {}
    /\ changed = FALSE
    /\ prepareCalls = 0
    /\ lastEvent = "none"

NextReveal ==
    \/ InitStart
    \/ \E e \in Elements, t \in Categories, d \in Delays : PrepareElement(e, t, d)
    \/ InitFinish
    \/ \E o \in 1..Len(observing) : \E i \in SUBSET observing[o] : Intersect(o, i)
    \/ ChangeToReduced
    \/ ChangeToMotion

\* ------------------------------------------------------------ reveal engine: claims

Registered == SetOf(animatedElements)

Visible(e) == ClassListContains(classList[e], IsVisible)

Observed(e) == \E o \in 1..Len(observing) : e \in observing[o]

\* How many times token occurs in a class list.
Occurrences(list, token) == Cardinality({i \in 1..Len(list) : list[i] = token})

\* How many times element occurs in a queue.
Queued(queue, element) == Cardinality({i \in 1..Len(queue) : queue[i] = element})

\* A record of the engine without the observation-only fields.
Real(s) == [s EXCEPT !.reshown = {}, !.firstType = [e \in Elements |-> ""]]

\* C4, as claimed: over any sequence of events a visible element never returns to
\* pending (so it becomes visible at most once).
C4_NeverBackToPending ==
    [][\A e \in Elements :
          Visible(e) => ClassListContains(classList'[e], IsVisible)]_vars

\* C4, amended: an element returns from visible to pending only in the handling of a
\* reduced-motion change to OFF (resetObserver); no intersection callback, change to
\* ON or registration returns it to pending, so between two resets it becomes visible
\* at most once.
C4_BackToPendingOnlyOnReset ==
    [][\A e \in Elements :
          (Visible(e) /\ ~ClassListContains(classList'[e], IsVisible)) =>
              /\ pc = "ready" /\ listening
              /\ matches /\ ~matches'
              /\ supportsObserver]_vars

\* A change to OFF has been handled and returned the registered elements, all visible
\* before it, to pending.
C4_Witness ==
    /\ lastEvent = "changeOff"
    /\ listening /\ supportsObserver
    /\ Registered # {}
    /\ \A e \in Registered : ~Visible(e)

\* C5: showElement is idempotent.  In every reachable state, and for every element,
\* a second showElement leaves exactly what the first one left: the element visible,
\* the marker present once; showAll twice, or after a callback already revealed an
\* element, is the same as showAll once; and no class list ever holds the marker twice.
C5_RevealIdempotent ==
    /\ \A e \in Elements :
         LET once  == showElement(Animations, e)
             twice == showElement(once, e)
         IN  /\ Real(twice) = Real(once)
             /\ Occurrences(once.classList[e], IsVisible) = 1
             /\ Occurrences(classList[e], IsVisible) <= 1
    /\ Real(showAll(showAll(Animations))) = Real(showAll(Animations))

\* showElement has run on an element that was already visible (showAll after the
\* observer callback revealed it), and the marker is there once.
C5_Witness ==
    \E e \in reshown :
        /\ lastEvent = "changeOn"
        /\ Occurrences(classList[e], IsVisible) = 1

\* C6: when reduced motion is active while init runs, then once init has completed
\* (and until the preference changes) every registered element is visible, the
\* pending queue is empty and no observer has been created.
C6_ReducedMotionAtInit ==
    (pc = "ready" /\ matches /\ ~changed) =>
        /\ \A e \in Registered : Visible(e)
        /\ pendingElements = <<>>
        /\ observer = NoObserver
        /\ Len(observing) = 0

\* init has completed under reduced motion with both elements registered, on a
\* platform that does offer IntersectionObserver.
C6_Witness ==
    /\ pc = "ready" /\ lastEvent = "setup"
    /\ matches /\ ~changed
    /\ supportsObserver
    /\ Registered = Elements
    /\ \A e \in Elements : Visible(e)

\* C7, as claimed: whenever init has completed and IntersectionObserver is
\* unavailable or reduced motion is active (from the start, or through a change event
\* the listener handled), all registered elements are visible and no observer is
\* observing any element.
C7_DegradedModeNoObservation ==
    (/\ pc = "ready"
     /\ \/ ~supportsObserver
        \/ matches /\ (listening \/ ~changed)) =>
        /\ \A e \in Registered : Visible(e)
        /\ \A o \in 1..Len(observing) : observing[o] = {}

\* C8, as claimed: no element that carries is-visible is still observed by an
\* intersection observer.
C8_VisibleNotObserved ==
    \A e \in Elements : Visible(e) => ~Observed(e)

\* C9: handling the change to OFF with IntersectionObserver available disconnects the
\* previous observer, returns every registered element to pending, creates exactly
\* one observer, which observes every registered element, and leaves pendingElements
\* empty; no other observer observes anything.
C9_RearmOnChangeToMotion ==
    [][(pc = "ready" /\ listening /\ supportsObserver /\ matches /\ ~matches') =>
          /\ observer # NoObserver => observing'[observer] = {}
          /\ animatedElements' = animatedElements
          /\ \A e \in Registered : ~ClassListContains(classList'[e], IsVisible)
          /\ Len(observing') = Len(observing) + 1
          /\ observer' = Len(observing')
          /\ observing'[observer'] = Registered
          /\ pendingElements' = <<>>
          /\ \A o \in 1..Len(observing') : o # observer' => observing'[o] = {}]_vars

\* The change to OFF was handled while an observer still observed an element: that
\* observer is disconnected and the new one observes both registered elements.
C9_Witness ==
    /\ lastEvent = "changeOff"
    /\ listening /\ supportsObserver
    /\ Len(observing) = 2 /\ observer = 2
    /\ observing[1] = {}
    /\ observing[2] = Elements
    /\ Registered = Elements
    /\ \A e \in Elements : ~Visible(e)

\* C10, as claimed: a prepareElement call on an unregistered element adds it once to
\* the registry and once to the pending queue or the observer, and records the
\* category of that first registration; a call on a registered element changes
\* nothing but its delay.
C10_RegistrationIdempotent ==
    [][prepareCalls' = prepareCalls + 1 =>
          /\ \A e \in Registered :
               /\ animate'[e] = animate[e]
               /\ classList'[e] = classList[e]
               /\ Queued(animatedElements', e) = 1
               /\ Queued(pendingElements', e) = Queued(pendingElements, e)
               /\ \A o \in 1..Len(observing) : (e \in observing'[o]) = (e \in observing[o])
          /\ \A e \in SetOf(animatedElements') \ Registered :
               /\ animate'[e] = firstType'[e]
               /\ Queued(animatedElements', e) = 1
               /\ Queued(pendingElements', e) + Cardinality({o \in 1..Len(observing') : e \in observing'[o]}) = 1
               /\ classList'[e] = classList[e]
          /\ \A e \in Elements \ SetOf(animatedElements') :
               /\ animate'[e] = animate[e]
               /\ animationDelay'[e] = animationDelay[e]
               /\ classList'[e] = classList[e]
          /\ Len(animatedElements') <= Len(animatedElements) + 1]_vars

\* C10, amended: as claimed, except that the category recorded at the first
\* registration is the one the element already carries in the markup
\* (data-animate), and the type of the first registration only when it carries none.
C10_RegistrationKeepsMarkupCategory ==
    [][prepareCalls' = prepareCalls + 1 =>
          /\ \A e \in Registered :
               /\ animate'[e] = animate[e]
               /\ classList'[e] = classList[e]
               /\ Queued(animatedElements', e) = 1
               /\ Queued(pendingElements', e) = Queued(pendingElements, e)
               /\ \A o \in 1..Len(observing) : (e \in observing'[o]) = (e \in observing[o])
          /\ \A e \in SetOf(animatedElements') \ Registered :
               /\ animate'[e] = (IF animate[e] # "" THEN animate[e] ELSE firstType'[e])
               /\ Queued(animatedElements', e) = 1
               /\ Queued(pendingElements', e) + Cardinality({o \in 1..Len(observing') : e \in observing'[o]}) = 1
               /\ classList'[e] = classList[e]
          /\ \A e \in Elements \ SetOf(animatedElements') :
               /\ animate'[e] = animate[e]
               /\ animationDelay'[e] = animationDelay[e]
               /\ classList'[e] = classList[e]
          /\ Len(animatedElements') <= Len(animatedElements) + 1]_vars

\* An element that carries a category in the markup was registered with another
\* type and then prepared again with a delay: it keeps the markup's category and is
\* queued once.
C10_Witness ==
    \E e \in Registered :
        /\ pc = "prepare"
        /\ prepareCalls > Len(animatedElements)
        /\ animate[e] # ""
        /\ firstType[e] # animate[e]
        /\ animationDelay[e] # 0
        /\ Queued(pendingElements, e) = 1

\* C18: when the media query offers no addEventListener, init completes, no change
\* listener is registered, and the engine stays in the mode chosen from the initial
\* preference value: a later preference change triggers neither showAll nor
\* resetObserver (nothing of the engine or the DOM changes), and an observer exists
\* exactly when the initial value was "no reduced motion" and IntersectionObserver
\* is available.
C18_StaticWithoutChangeNotification ==
    [][~canListen =>
          /\ ~listening'
          /\ pc = "prepare" => pc' \in {"prepare", "ready"}
          /\ matches' # matches =>
               /\ Animations' = Animations
               /\ bodyReducedMotion' = bodyReducedMotion
          /\ pc' = "ready" =>
               /\ (observer' # NoObserver) = (supportsObserver /\ ~bodyReducedMotion')
               /\ observer' = NoObserver =>
                    \A e \in SetOf(animatedElements') :
                        ClassListContains(classList'[e], IsVisible)]_vars

\* Without change notification the user turned reduced motion ON after init chose
\* the observing mode: the observer is still there and an element is still pending.
C18_Witness ==
    /\ ~canListen /\ ~listening
    /\ pc = "ready" /\ lastEvent = "changeOn"
    /\ matches /\ ~bodyReducedMotion
    /\ observer # NoObserver
    /\ \E e \in Registered : ~Visible(e) /\ e \in observing[observer]

\* C20: with IntersectionObserver available, once init has completed and after any
\* sequence of preference changes, every registered element is visible or observed
\* by the current observer, and none is merely queued; and every element an
\* intersection callback takes out of observation is visible afterwards.
C20_NoElementStuckHidden ==
    [][(pc' = "ready" /\ supportsObserver) =>
          /\ pendingElements' = <<>>
          /\ \A e \in SetOf(animatedElements') :
               \/ ClassListContains(classList'[e], IsVisible)
               \/ observer' # NoObserver /\ e \in observing'[observer']
          /\ lastEvent' = "intersect" =>
               \A e \in observing[observer] \ observing'[observer] :
                   ClassListContains(classList'[e], IsVisible)]_vars

\* After a re-arm, one element was reported intersecting and is visible; the other
\* is still hidden and observed by the current (second) observer.
C20_Witness ==
    /\ pc = "ready" /\ supportsObserver
    /\ lastEvent = "intersect"
    /\ Len(observing) = 2 /\ observer = 2
    /\ Registered = Elements
    /\ \E e \in Elements : Visible(e) /\ ~Observed(e)
    /\ \E e \in Elements : ~Visible(e) /\ e \in observing[observer]

\* ------------------------------------------------------------ navigation overlay

\* window.innerWidth > 992 closes the navigation.
Breakpoint == 992

\* String(b), as written to the ARIA attributes.
BoolString(b) == IF b THEN "true" ELSE "false"

\* The DOM state the navigation handlers touch.
Nav ==
    [hamburger    |-> hamburgerActive,
     overlay      |-> overlayActive,
     ariaExpanded |-> ariaExpanded,
     ariaHidden   |-> ariaHidden,
     overflow     |-> bodyOverflow,
     submenus     |-> activeSubmenus]

syncOverlayStateSkipsHidden(n) ==
    LET isActive == n.overlay
    IN  [n EXCEPT !.ariaExpanded = BoolString(isActive),
                  !.overflow = IF isActive THEN "hidden" ELSE ""]

\* performance-optimizer.js: the MutationObserver callback.
syncOverlayState(n) ==
    LET isActive == n.overlay
    IN  [n EXCEPT !.ariaExpanded = BoolString(isActive),
                  !.ariaHidden = BoolString(~isActive),
                  !.overflow = IF isActive THEN "hidden" ELSE ""]

\* The microtask checkpoint after a handler that wrote the overlay's class attribute:
\* the MutationObserver, once installed, calls syncOverlayState.
AfterMutation(n, wrote) == IF navPhase = "both" /\ wrote THEN syncOverlayState(n) ELSE n

\* script.js: toggleNav.
toggleNav(n) ==
    LET isActive == ~n.hamburger
    IN  [n EXCEPT !.hamburger = isActive,
                  !.overlay = ~n.overlay,
                  !.overflow = IF isActive THEN "hidden" ELSE "",
                  !.ariaExpanded = BoolString(isActive)]

\* script.js: closeNav.
closeNav(n) ==
    LET n1 == IF n.hamburger THEN toggleNav(n) ELSE n
    IN  [n1 EXCEPT !.submenus = {}]

\* script.js handlers, each followed by its microtask checkpoint.
ScriptHamburgerClick(n) == AfterMutation(toggleNav(n), TRUE)

ScriptClose(n) == AfterMutation(closeNav(n), n.hamburger)

ScriptEscapeToggles(n, key) ==
    IF key = "Escape" THEN AfterMutation(toggleNav(n), TRUE) ELSE n

ScriptEscape(n, key) ==
    IF key = "Escape" /\ n.hamburger THEN ScriptClose(n) ELSE n

ScriptResizeAtBreakpoint(n, width) == IF width >= Breakpoint THEN ScriptClose(n) ELSE n

ScriptResize(n, width) == IF width > Breakpoint THEN ScriptClose(n) ELSE n

ScriptTriggerClick(n, submenu) == [n EXCEPT !.submenus = @ \cup {submenu}]

ScriptBackClick(n, submenu) == [n EXCEPT !.submenus = @ \ {submenu}]

optimizerCloseOverlayOnly(n) == [n EXCEPT !.overlay = FALSE]

\* performance-optimizer.js: the body of its three close handlers.
optimizerClose(n) == [n EXCEPT !.hamburger = FALSE, !.overlay = FALSE]

\* performance-optimizer.js handlers; they exist once setupHamburgerMenu has run.
OptimizerClose(n) ==
    IF navPhase = "both" THEN AfterMutation(optimizerClose(n), TRUE) ELSE n

OptimizerEscape(n, key) ==
    IF navPhase = "both" /\ key = "Escape" /\ n.overlay
      THEN AfterMutation(optimizerClose(n), TRUE)
      ELSE n

\* The variables take the values of the record n.
NavBecomes(n) ==
    /\ hamburgerActive' = n.hamburger
    /\ overlayActive' = n.overlay
    /\ ariaExpanded' = n.ariaExpanded
    /\ ariaHidden' = n.ariaHidden
    /\ bodyOverflow' = n.overflow
    /\ activeSubmenus' = n.submenus
    /\ navBefore' = Nav
    /\ UNCHANGED <<navPhase, scriptFirst, triggerIsMenuLink>>
    /\ UNCHANGED notNavVars

\* performance-optimizer.js setupHamburgerMenu, at window load: installs the
\* MutationObserver and the close handlers and calls syncOverlayState once.
OptimizerSetup ==
    /\ navPhase = "script"
    /\ navPhase' = "both"
    /\ hamburgerActive' = hamburgerActive
    /\ overlayActive' = overlayActive
    /\ ariaExpanded' = syncOverlayState(Nav).ariaExpanded
    /\ ariaHidden' = syncOverlayState(Nav).ariaHidden
    /\ bodyOverflow' = syncOverlayState(Nav).overflow
    /\ navEvent' = "setup"
    /\ navBefore' = Nav
    /\ UNCHANGED <<scriptFirst, triggerIsMenuLink, activeSubmenus, innerWidth>>
    /\ UNCHANGED notNavVars

\* A click on the hamburger: script.js toggleNav.
HamburgerClick ==
    /\ NavBecomes(ScriptHamburgerClick(Nav))
    /\ navEvent' = "hamburger"
    /\ UNCHANGED innerWidth

\* A click on the overlay itself (event.target === mobileNavOverlay): both scripts.
\* The overlay and what it contains can be clicked while the overlay is open.
OverlayClick ==
    /\ overlayActive
    /\ NavBecomes(IF scriptFirst THEN OptimizerClose(ScriptClose(Nav))
                                 ELSE ScriptClose(OptimizerClose(Nav)))
    /\ navEvent' = "overlay"
    /\ UNCHANGED innerWidth

\* A click on a plain .mobile-menu-link: the optimizer's handler only.
MenuLinkClick ==
    /\ overlayActive
    /\ NavBecomes(OptimizerClose(Nav))
    /\ navEvent' = "link"
    /\ UNCHANGED innerWidth

\* A click on a .mobile-submenu-trigger: script.js opens its sub-menu; when the
\* trigger is also a .mobile-menu-link the optimizer's link handler runs too.
SubmenuTriggerClick(submenu) ==
    /\ overlayActive
    /\ NavBecomes(IF ~triggerIsMenuLink
                    THEN ScriptTriggerClick(Nav, submenu)
                    ELSE IF scriptFirst
                           THEN OptimizerClose(ScriptTriggerClick(Nav, submenu))
                           ELSE ScriptTriggerClick(OptimizerClose(Nav), submenu))
    /\ navEvent' = "trigger"
    /\ UNCHANGED innerWidth

\* A click on the .mobile-back-button of a sub-menu.
BackButtonClick(submenu) ==
    /\ overlayActive
    /\ NavBecomes(ScriptBackClick(Nav, submenu))
    /\ navEvent' = "back"
    /\ UNCHANGED innerWidth

\* A keydown on the document: both scripts.
KeyDown(key) ==
    /\ NavBecomes(IF scriptFirst THEN OptimizerEscape(ScriptEscape(Nav, key), key)
                                 ELSE ScriptEscape(OptimizerEscape(Nav, key), key))
    /\ navEvent' = key
    /\ UNCHANGED innerWidth

\* A resize of the window to `width`: script.js.
Resize(width) ==
    /\ innerWidth' = width
    /\ NavBecomes(ScriptResize(Nav, width))
    /\ navEvent' = "resize"

\* After DOMContentLoaded: navigation.setupHamburgerMenu has installed its handlers.
InitNav ==
    /\ navPhase = "script"
    /\ scriptFirst \in BOOLEAN
    /\ triggerIsMenuLink \in BOOLEAN
    /\ hamburgerActive = FALSE
    /\ overlayActive = FALSE
    /\ ariaExpanded \in {"", "false"}
    /\ ariaHidden \in {"", "true"}
    /\ bodyOverflow = ""
    /\ activeSubmenus = {}
    /\ innerWidth \in Widths
    /\ navEvent = "none"
    /\ navBefore = Nav

NextNav ==
    \/ OptimizerSetup
    \/ HamburgerClick
    \/ OverlayClick
    \/ MenuLinkClick
    \/ \E m \in Submenus : SubmenuTriggerClick(m)
    \/ \E m \in Submenus : BackButtonClick(m)
    \/ \E k \in Keys : KeyDown(k)
    \/ \E w \in Widths : Resize(w)

\* ------------------------------------------------------------ navigation overlay: claims

\* The overlay is open.
Open(n) == n.overlay

\* C11: once the optimizer's MutationObserver is installed and its callback has
\* run for the latest change of the overlay's class, aria-expanded of the
\* hamburger is "true" exactly when the overlay carries active, aria-hidden of
\* the overlay is "true" exactly when it does not, and the body's overflow is
\* "hidden" exactly when the overlay is open (and empty otherwise).
C11_AttributesFollowOverlay ==
    navPhase = "both" =>
        /\ ariaExpanded = BoolString(overlayActive)
        /\ ariaHidden = BoolString(~overlayActive)
        /\ bodyOverflow = (IF overlayActive THEN "hidden" ELSE "")

C11_Witness ==
    /\ navPhase = "both"
    /\ navEvent = "hamburger"
    /\ ~Open(navBefore) /\ navBefore.ariaHidden = "true"
    /\ overlayActive /\ ariaExpanded = "true" /\ ariaHidden = "false"
    /\ bodyOverflow = "hidden"

\* C12: an Escape key press while the overlay is open leaves the overlay and the
\* hamburger without active; an Escape key press while it is closed changes
\* neither the overlay, nor the hamburger's active class and aria-expanded, nor
\* the body's overflow.
C12_EscapeClosesOnlyIfOpen ==
    navEvent = "Escape" =>
        IF Open(navBefore)
          THEN ~overlayActive /\ ~hamburgerActive
          ELSE /\ overlayActive = navBefore.overlay
               /\ hamburgerActive = navBefore.hamburger
               /\ ariaExpanded = navBefore.ariaExpanded
               /\ bodyOverflow = navBefore.overflow

C12_Witness ==
    /\ navEvent = "Escape"
    /\ navPhase = "both"
    /\ Open(navBefore) /\ navBefore.hamburger
    /\ ~overlayActive /\ ~hamburgerActive

\* C13: a resize to a width above 992 leaves the overlay and the hamburger
\* without active and no sub-menu with active; a resize to a width of 992 or
\* less changes nothing.
C13_ResizeAboveBreakpointCloses ==
    navEvent = "resize" =>
        IF innerWidth > Breakpoint
          THEN ~overlayActive /\ ~hamburgerActive /\ activeSubmenus = {}
          ELSE Nav = navBefore

C13_Witness ==
    /\ navEvent = "resize"
    /\ innerWidth = Breakpoint + 1
    /\ Open(navBefore) /\ navBefore.hamburger /\ navBefore.submenus = Submenus
    /\ ~overlayActive /\ ~hamburgerActive /\ activeSubmenus = {}

\* C19: starting from both inactive, the hamburger and the overlay carry active
\* together or not at all after every event, whichever script's handler runs
\* first; and after the close handlers of both scripts have run for one event
\* (a click on the overlay, Escape) the overlay is closed, not toggled back open.
C19_HamburgerAndOverlayAgree ==
    /\ hamburgerActive = overlayActive
    /\ (navPhase = "both" /\ navEvent \in {"overlay", "Escape"}) => ~overlayActive

C19_Witness ==
    /\ navPhase = "both"
    /\ ~scriptFirst
    /\ navEvent = "overlay"
    /\ Open(navBefore) /\ navBefore.hamburger
    /\ ~overlayActive /\ ~hamburgerActive

\* C21: whenever the overlay is closed, no sub-menu carries active.
C21_ClosedOverlayNoSubmenu == ~overlayActive => activeSubmenus = {}

\* ------------------------------------------------------------ session visit

MaxLoads == 5
MaxSessions == 3

NAME_MARKER == "__vortixiaVisited__"

\* The state isFirstSessionLoad reads and writes.
Visit == [visited |-> visited, name |-> windowName, result |-> FALSE, byName |-> FALSE]

\* markWithWindowName.
markWithWindowName(v) ==
    [v EXCEPT !.result = (v.name # NAME_MARKER), !.name = NAME_MARKER, !.byName = TRUE]

isFirstSessionLoadNeverMarks(v, getThrows, setThrows) ==
    IF protocol = "file:" THEN markWithWindowName(v)
    ELSE IF getThrows THEN markWithWindowName(v)
    ELSE IF ~v.visited
           THEN IF setThrows THEN markWithWindowName(v)
                ELSE [v EXCEPT !.result = TRUE]
           ELSE [v EXCEPT !.result = FALSE]

\* isFirstSessionLoad in a browser (hasDOM); getThrows and setThrows say whether
\* sessionStorage.getItem and sessionStorage.setItem throw in this call.
isFirstSessionLoad(v, getThrows, setThrows) ==
    IF protocol = "file:" THEN markWithWindowName(v)
    ELSE IF getThrows THEN markWithWindowName(v)
    ELSE IF ~v.visited
           THEN IF setThrows THEN markWithWindowName(v)
                ELSE [v EXCEPT !.visited = TRUE, !.result = TRUE]
           ELSE [v EXCEPT !.result = FALSE]

\* A storage access of the call throws.
Throws(v, getThrows, setThrows) ==
    /\ protocol # "file:"
    /\ getThrows \/ (~v.visited /\ setThrows)

\* A page load: setupPageVisibility calls isFirstSessionLoad once.
PageLoad(getThrows, setThrows) ==
    /\ Len(returns) < MaxLoads
    /\ LET v == isFirstSessionLoad(Visit, getThrows, setThrows)
       IN  /\ visited' = v.visited
           /\ windowName' = v.name
           /\ returns' = Append(returns, [result |-> v.result, byName |-> v.byName])
    /\ storageThrew' = (storageThrew \/ Throws(Visit, getThrows, setThrows))
    /\ UNCHANGED <<protocol, session>>
    /\ UNCHANGED notSessionVars

\* The session ends and another begins: session storage and the name of the
\* browsing context start empty.
NewSession ==
    /\ session < MaxSessions
    /\ session' = session + 1
    /\ protocol' \in Protocols
    /\ visited' = FALSE
    /\ windowName' \in InitialNames
    /\ returns' = <<>>
    /\ storageThrew' = FALSE
    /\ UNCHANGED notSessionVars

InitSession ==
    /\ protocol \in Protocols
    /\ visited = FALSE
    /\ windowName \in InitialNames
    /\ session = 1
    /\ returns = <<>>
    /\ storageThrew = FALSE

NextSession ==
    \/ \E getThrows, setThrows \in BOOLEAN : PageLoad(getThrows, setThrows)
    \/ NewSession

\* ------------------------------------------------------------ session visit: claims

\* The calls of this session that returned true.
TrueReturns == {i \in DOMAIN returns : returns[i].result}

\* C14: while session storage works, the first call of a session returns true
\* and every later call of that session returns false; the same holds again in
\* a new session.
C14_TrueExactlyOnce ==
    (protocol = "https:" /\ ~storageThrew) =>
        \A i \in DOMAIN returns : returns[i].result = (i = 1) /\ ~returns[i].byName

C14_Witness ==
    /\ session = 2
    /\ protocol = "https:" /\ ~storageThrew
    /\ visited
    /\ Len(returns) = 3
    /\ returns[1].result /\ ~returns[2].result /\ ~returns[3].result

\* C15: whatever storage accesses throw, the calls of one session return true at
\* most once.
C15_TrueAtMostOnce == Cardinality(TrueReturns) <= 1

\* ------------------------------------------------------------ theme

MaxClicks == 6

\* The class of a theme.
ThemeClass(isDark) == IF isDark THEN "dark-theme" ELSE "light-theme"

\* The label syncToggles gives a toggle.
ToggleLabel(isDark) == IF isDark THEN "Switch to light mode" ELSE "Switch to dark mode"

\* The DOM and storage state the theme object touches.
Theme ==
    [html    |-> htmlClasses,
     body    |-> bodyClasses,
     stored  |-> storedTheme,
     checked |-> ariaChecked,
     label   |-> ariaLabel,
     escaped |-> FALSE]

\* theme.syncToggles.
syncToggles(t, isDark) ==
    [t EXCEPT !.checked = [g \in Toggles |-> BoolString(isDark)],
              !.label = [g \in Toggles |-> ToggleLabel(isDark)]]

setStoresOther(t, isDark, throws) ==
    LET t1 == [t EXCEPT !.html = (@ \ {ThemeClass(~isDark)}) \cup {ThemeClass(isDark)},
                        !.body = (@ \ {ThemeClass(~isDark)}) \cup {ThemeClass(isDark)}]
    IN  IF throws
          THEN [t1 EXCEPT !.escaped = TRUE]
          ELSE syncToggles([t1 EXCEPT !.stored = IF isDark THEN "light" ELSE "dark"], isDark)

\* theme.set; `throws` says whether localStorage.setItem throws, which ends the
\* call there and passes the exception to the caller.
set(t, isDark, throws) ==
    LET t1 == [t EXCEPT !.html = (@ \ {ThemeClass(~isDark)}) \cup {ThemeClass(isDark)},
                        !.body = (@ \ {ThemeClass(~isDark)}) \cup {ThemeClass(isDark)}]
    IN  IF throws
          THEN [t1 EXCEPT !.escaped = TRUE]
          ELSE syncToggles([t1 EXCEPT !.stored = IF isDark THEN "dark" ELSE "light"], isDark)

\* The click listener of a theme toggle.
ToggleClick(toggle, throws) ==
    /\ clicks < MaxClicks
    /\ clicks' = clicks + 1
    /\ clickedToggle' = toggle
    /\ LET isDark == ~("dark-theme" \in bodyClasses)
           t == set(Theme, isDark, throws)
       IN  /\ htmlClasses' = t.html
           /\ bodyClasses' = t.body
           /\ storedTheme' = t.stored
           /\ ariaChecked' = t.checked
           /\ ariaLabel' = t.label
           /\ themeEvent' = IF t.escaped THEN "escaped" ELSE "returned"
    /\ writeThrew' = (writeThrew \/ throws)
    /\ UNCHANGED notThemeVars

\* After theme.init: the bootstrap has applied the class of the initial theme
\* (none when it left no window.__INITIAL_THEME__) and init has synced the toggles.
InitTheme ==
    /\ \E initial \in InitialThemes :
          /\ htmlClasses = (IF initial = "" THEN {} ELSE {initial \o "-theme"})
          /\ bodyClasses = htmlClasses
          /\ ariaChecked = [g \in Toggles |-> BoolString(initial = "dark")]
          /\ ariaLabel = [g \in Toggles |-> ToggleLabel(initial = "dark")]
    /\ storedTheme \in {"", "dark", "light"}
    /\ themeEvent = "none"
    /\ clicks = 0
    /\ clickedToggle = ""
    /\ writeThrew = FALSE

NextTheme == \E toggle \in Toggles, throws \in BOOLEAN : ToggleClick(toggle, throws)

\* ------------------------------------------------------------ theme: claims

\* The toggles show the theme of the body.
TogglesMatchBody ==
    \A g \in Toggles :
        /\ ariaChecked[g] = BoolString("dark-theme" \in bodyClasses)
        /\ ariaLabel[g] = ToggleLabel("dark-theme" \in bodyClasses)

\* C16: a click never lets an exception escape its handler, and after a click
\* the toggles' aria-checked and aria-label show the theme whose class the body
\* carries, also when the write to storage throws.
C16_StorageFailureContained ==
    themeEvent # "none" => (themeEvent = "returned" /\ TogglesMatchBody)

\* C17: after one or more clicks whose writes all succeeded, the stored theme is
\* "dark" or "light", and it is "dark" exactly when the body carries dark-theme.
C17_StoredThemeMatchesBody ==
    (themeEvent # "none" /\ ~writeThrew) =>
        /\ storedTheme \in {"dark", "light"}
        /\ (storedTheme = "dark") = ("dark-theme" \in bodyClasses)

C17_Witness ==
    /\ clicks = 2
    /\ themeEvent = "returned" /\ ~writeThrew
    /\ storedTheme = "light"
    /\ bodyClasses = {"light-theme"} /\ htmlClasses = {"light-theme"}
    /\ TogglesMatchBody

\* html and body carry the same single theme class.
SingleThemeClass ==
    /\ htmlClasses = bodyClasses
    /\ bodyClasses \in {{"dark-theme"}, {"light-theme"}}

\* C22: from an initial state in which html and body carry the same single
\* theme class, after any clicks on any toggle html and body still carry the
\* same single theme class, and every toggle's aria-checked is "true" exactly
\* when that class is dark-theme.
C22_ThemeConsistentAcrossToggles ==
    (clicks > 0 \/ SingleThemeClass) =>
        /\ SingleThemeClass
        /\ \A g \in Toggles : ariaChecked[g] = BoolString("dark-theme" \in bodyClasses)

\* ------------------------------------------------------------ hero carousel

MaxSlides == 3
MaxHandles == 3

\* setInterval(nextSlide, 5000): the period, in seconds.
AdvancePeriod == 5

\* The indices of n elements of a NodeList.
Indices(n) == 0 .. (n - 1)

\* The state setupCarousel's closures touch.
Carousel ==
    [currentSlide  |-> currentSlide,
     activeSlides  |-> activeSlides,
     activeDots    |-> activeDots,
     slideInterval |-> slideInterval,
     intervals     |-> intervals,
     nextHandle    |-> nextHandle]

\* showSlide: classList.toggle('active', i === index) on every slide and dot.
showSlide(c, index) ==
    [c EXCEPT !.activeSlides = {i \in Indices(slides) : i = index},
              !.activeDots = {i \in Indices(dots) : i = index}]

\* nextSlide.
nextSlide(c) ==
    LET next == (c.currentSlide + 1) % slides
    IN  showSlide([c EXCEPT !.currentSlide = next], next)

\* setInterval(nextSlide, 5000): a new running timer under a fresh handle.
setInterval(c) ==
    [c EXCEPT !.intervals = [h \in DOMAIN c.intervals \cup {c.nextHandle} |->
                                IF h = c.nextHandle THEN 0 ELSE c.intervals[h]],
              !.slideInterval = c.nextHandle,
              !.nextHandle = c.nextHandle + 1]

\* clearInterval(handle).
clearInterval(c, handle) ==
    [c EXCEPT !.intervals = [h \in DOMAIN c.intervals \ {handle} |-> c.intervals[h]]]

resetIntervalKeepsOld(c) == setInterval(c)

\* resetInterval.
resetInterval(c) == setInterval(clearInterval(c, c.slideInterval))

\* The variables take the values of the record c.
CarouselBecomes(c) ==
    /\ currentSlide' = c.currentSlide
    /\ activeSlides' = c.activeSlides
    /\ activeDots' = c.activeDots
    /\ slideInterval' = c.slideInterval
    /\ intervals' = c.intervals
    /\ nextHandle' = c.nextHandle
    /\ UNCHANGED <<slides, dots>>
    /\ UNCHANGED notCarouselVars

\* One second passes; no running timer is overdue.
CarouselTick ==
    /\ intervals # <<>>
    /\ \A h \in DOMAIN intervals : intervals[h] < AdvancePeriod
    /\ intervals' = [h \in DOMAIN intervals |-> intervals[h] + 1]
    /\ UNCHANGED <<slides, dots, currentSlide, activeSlides, activeDots, slideInterval,
                   nextHandle, carouselEvent>>
    /\ UNCHANGED notCarouselVars

\* A running timer fires after its period: nextSlide.
IntervalFire(handle) ==
    /\ handle \in DOMAIN intervals
    /\ intervals[handle] = AdvancePeriod
    /\ CarouselBecomes([nextSlide(Carousel) EXCEPT !.intervals[handle] = 0])
    /\ carouselEvent' = "advance"

\* The click listener of the dot with this index.
DotClick(index) ==
    /\ index \in Indices(dots)
    /\ nextHandle <= MaxHandles
    /\ CarouselBecomes(resetInterval(showSlide([Carousel EXCEPT !.currentSlide = index],
                                               index)))
    /\ carouselEvent' = "dot"

\* After setupCarousel on a page with slides: currentSlide is 0, the first timer
\* runs, and the markup decides which slide and dot carry active.
InitCarousel ==
    /\ slides \in 1 .. MaxSlides
    /\ dots \in {0, slides}
    /\ currentSlide = 0
    /\ activeSlides \in {{}, {0}}
    /\ activeDots \in {{}, {0} \cap Indices(dots)}
    /\ slideInterval = 1
    /\ intervals = [h \in {1} |-> 0]
    /\ nextHandle = 2
    /\ carouselEvent = "none"

NextCarousel ==
    \/ CarouselTick
    \/ \E h \in 1 .. MaxHandles : IntervalFire(h)
    \/ \E i \in Indices(MaxSlides) : DotClick(i)

\* ------------------------------------------------------------ hero carousel: claims

\* The step is the firing of a running timer.
AdvanceStep ==
    /\ nextHandle' = nextHandle
    /\ \E h \in DOMAIN intervals : intervals[h] = AdvancePeriod /\ intervals'[h] = 0

\* C23: with as many dots as slides, after any advances and dot clicks (one at least) the
\* current slide index is in 0 .. slides-1, exactly the slide and the dot with
\* that index carry active, at most one interval timer is running (the one
\* held in slideInterval), and an advance from the last slide goes to the first.
C23_CarouselConsistent ==
    [][dots = slides =>
          /\ carouselEvent' # "none" =>
                /\ currentSlide' \in Indices(slides)
                /\ activeSlides' = {currentSlide'}
                /\ activeDots' = {currentSlide'}
          /\ Cardinality(DOMAIN intervals') <= 1
          /\ DOMAIN intervals' = {slideInterval'}
          /\ (AdvanceStep /\ currentSlide = slides - 1) => currentSlide' = 0]_vars

C23_Witness ==
    /\ dots = slides /\ slides = MaxSlides
    /\ carouselEvent = "advance"
    /\ currentSlide = 0 /\ activeSlides = {0} /\ activeDots = {0}
    /\ slideInterval > 1
    /\ DOMAIN intervals = {slideInterval}

\* ------------------------------------------------------------ scroll-aware navigation bar

MaxScroll == 6

\* nav.offsetHeight on the pages modelled.
Heights == {0, 2, 3}

\* window.pageYOffset; negative while the page overscrolls at the top.
Positions == -1 .. MaxScroll

\* The fields updateNavPosition reads and writes.
NavBar ==
    [lastScrollTop |-> lastScrollTop,
     isNavHidden   |-> isNavHidden,
     transform     |-> navTransform,
     ticking       |-> ticking]

\* currentScroll > navHeight * 1.5, in integers.
BeyondHideLine(currentScroll) == 2 * currentScroll > 3 * navHeight

updateNavPositionHidesEarly(b, currentScroll) ==
    LET scrollingDown == currentScroll > b.lastScrollTop
        scrollingUp == currentScroll < b.lastScrollTop
        b1 == IF scrollingDown /\ currentScroll > navHeight
                THEN IF ~b.isNavHidden
                       THEN [b EXCEPT !.transform = "hide", !.isNavHidden = TRUE]
                       ELSE b
                ELSE IF scrollingUp \/ currentScroll <= navHeight
                       THEN IF b.isNavHidden \/ currentScroll <= navHeight
                              THEN [b EXCEPT !.transform = "show", !.isNavHidden = FALSE]
                              ELSE b
                       ELSE b
    IN  [b1 EXCEPT !.lastScrollTop = IF currentScroll <= 0 THEN 0 ELSE currentScroll,
                   !.ticking = FALSE]

\* updateNavPosition.
updateNavPosition(b, currentScroll) ==
    LET scrollingDown == currentScroll > b.lastScrollTop
        scrollingUp == currentScroll < b.lastScrollTop
        b1 == IF scrollingDown /\ BeyondHideLine(currentScroll)
                THEN IF ~b.isNavHidden
                       THEN [b EXCEPT !.transform = "hide", !.isNavHidden = TRUE]
                       ELSE b
                ELSE IF scrollingUp \/ currentScroll <= navHeight
                       THEN IF b.isNavHidden \/ currentScroll <= navHeight
                              THEN [b EXCEPT !.transform = "show", !.isNavHidden = FALSE]
                              ELSE b
                       ELSE b
    IN  [b1 EXCEPT !.lastScrollTop = IF currentScroll <= 0 THEN 0 ELSE currentScroll,
                   !.ticking = FALSE]

\* A scroll event after the page moved to `position`: the listener requests a
\* frame unless one is pending.
Scroll(position) ==
    /\ position # pageYOffset
    /\ pageYOffset' = position
    /\ IF ~ticking
         THEN scheduledFrames' = scheduledFrames + 1 /\ ticking' = TRUE
         ELSE UNCHANGED <<scheduledFrames, ticking>>
    /\ UNCHANGED <<navHeight, lastScrollTop, isNavHidden, navTransform>>
    /\ UNCHANGED notScrollVars

\* A requested animation frame runs: updateNavPosition, then ticking = false.
AnimationFrame ==
    /\ scheduledFrames > 0
    /\ scheduledFrames' = scheduledFrames - 1
    /\ LET b == updateNavPosition(NavBar, pageYOffset)
       IN  /\ lastScrollTop' = b.lastScrollTop
           /\ isNavHidden' = b.isNavHidden
           /\ navTransform' = b.transform
           /\ ticking' = FALSE
    /\ UNCHANGED <<navHeight, pageYOffset>>
    /\ UNCHANGED notScrollVars

\* After setupNavScroll on a page with a .glassy-nav, scrolled to the top.
InitScroll ==
    /\ navHeight \in Heights
    /\ pageYOffset = 0
    /\ lastScrollTop = 0
    /\ isNavHidden = FALSE
    /\ ticking = FALSE
    /\ scheduledFrames = 0
    /\ navTransform = ""

NextScroll ==
    \/ \E position \in Positions : Scroll(position)
    \/ AnimationFrame

\* ------------------------------------------------------------ scroll-aware navigation bar: claims

\* The step runs a requested animation frame.
FrameStep == scheduledFrames' < scheduledFrames

\* C24: at most one animation frame is requested at any time; an update that
\* processes a position at or below the bar's height leaves the bar shown
\* (isNavHidden false, the show transform applied); the bar goes from shown to
\* hidden only in an update whose position is above the last one and beyond 1.5
\* times the bar's height; and isNavHidden says whether the hide transform is
\* the one applied.
C24_ScrollNavConsistent ==
    [][/\ scheduledFrames' <= 1
       /\ isNavHidden' = (navTransform' = "hide")
       /\ (FrameStep /\ pageYOffset <= navHeight) =>
             ~isNavHidden' /\ navTransform' = "show"
       /\ (~isNavHidden /\ isNavHidden') =>
             /\ FrameStep
             /\ pageYOffset > lastScrollTop
             /\ 2 * pageYOffset > 3 * navHeight]_vars

C24_Witness ==
    /\ navHeight = 3
    /\ isNavHidden /\ navTransform = "hide"
    /\ pageYOffset = 2 /\ lastScrollTop = 5
    /\ ticking /\ scheduledFrames = 1

\* ------------------------------------------------------------ specifications

\* The parts that a specification does not run stay in one fixed initial state.
ThrottleIdle == InitThrottle /\ limit = CHOOSE l \in Limits : TRUE

RevealIdle ==
    /\ InitReveal
    /\ ~matches /\ canListen /\ supportsObserver
    /\ animate = [e \in Elements |-> ""]

NavIdle ==
    /\ InitNav
    /\ scriptFirst /\ triggerIsMenuLink
    /\ ariaExpanded = "" /\ ariaHidden = ""
    /\ innerWidth = CHOOSE w \in Widths : TRUE

SessionIdle == InitSession /\ protocol = "https:" /\ windowName = ""

ThemeIdle == InitTheme /\ htmlClasses = {} /\ storedTheme = ""

CarouselIdle == InitCarousel /\ slides = 1 /\ dots = 1 /\ activeSlides = {0} /\ activeDots = {0}

ScrollIdle == InitScroll /\ navHeight = CHOOSE h \in Heights : TRUE

\* The throttle alone: the reveal engine is not started.
InitSpecThrottle ==
    /\ InitThrottle
    /\ InitReveal
    /\ ~matches /\ canListen /\ supportsObserver
    /\ animate = [e \in Elements |-> ""]
    /\ NavIdle
    /\ SessionIdle
    /\ ThemeIdle
    /\ CarouselIdle
    /\ ScrollIdle

\* The reveal engine alone: no throttled wrapper is called.
InitSpecReveal ==
    /\ InitReveal
    /\ InitThrottle
    /\ limit = CHOOSE l \in Limits : TRUE
    /\ NavIdle
    /\ SessionIdle
    /\ ThemeIdle
    /\ CarouselIdle
    /\ ScrollIdle

\* The navigation overlay alone.
InitSpecNav ==
    InitNav /\ ThrottleIdle /\ RevealIdle /\ SessionIdle /\ ThemeIdle /\ CarouselIdle
    /\ ScrollIdle

\* The session visit tracker alone.
InitSpecSession ==
    InitSession /\ ThrottleIdle /\ RevealIdle /\ NavIdle /\ ThemeIdle /\ CarouselIdle
    /\ ScrollIdle

\* The theme alone.
InitSpecTheme ==
    InitTheme /\ ThrottleIdle /\ RevealIdle /\ NavIdle /\ SessionIdle /\ CarouselIdle
    /\ ScrollIdle

\* The hero carousel alone.
InitSpecCarousel ==
    InitCarousel /\ ThrottleIdle /\ RevealIdle /\ NavIdle /\ SessionIdle /\ ThemeIdle
    /\ ScrollIdle

\* The scroll-aware navigation bar alone.
InitSpecScroll ==
    InitScroll /\ ThrottleIdle /\ RevealIdle /\ NavIdle /\ SessionIdle /\ ThemeIdle
    /\ CarouselIdle

SpecThrottle == InitSpecThrottle /\ [][NextThrottle]_vars

SpecReveal == InitSpecReveal /\ [][NextReveal]_vars

SpecNav == InitSpecNav /\ [][NextNav]_vars

SpecSession == InitSpecSession /\ [][NextSession]_vars

SpecTheme == InitSpecTheme /\ [][NextTheme]_vars

SpecCarousel == InitSpecCarousel /\ [][NextCarousel]_vars

SpecScroll == InitSpecScroll /\ [][NextScroll]_vars

=============================================================================
